---------------------------- MODULE Spec2Model ----------------------------
(***************************************************************************)
(* Model of openag_brain/software_modules:                                 *)
(*   sensor_persistence.py  - the Measurement Recorder (TopicPersistence)  *)
(*   controllers.py         - Controller, Open/ClosedLoopController        *)
(*                                                                         *)
(* Values are Float64 readings in tenths (200 stands for 20.0); times are  *)
(* whole seconds of time.time().  A Python exception is modelled by its    *)
(* class name.  rospy logs an exception raised by a subscriber callback    *)
(* and keeps spinning; an exception raised by start() ends the process.    *)
(*                                                                         *)
(* sensor_persistence.py line 32 lacks the comma after `value`, so the     *)
(* file as it stands does not compile (SyntaxError) and nothing of it      *)
(* runs.  The model reads the parameter list as the five parameters the    *)
(* call at lines 77-80 passes; with or without that reading the recorder   *)
(* persists nothing, because of line 76 (see on_data).                     *)
(***************************************************************************)
EXTENDS Integers, Sequences, FiniteSets, TLC

\* ------------------------------------------------------------------ bounds
MaxReadings == 3          \* readings handled by the recorder in one run
MaxNonce == 1             \* random.randint(0, sys.maxsize) drawn from 0..MaxNonce
MaxMessages == 3          \* messages the bus delivers to the controller runtimes

\* ------------------------------------------------------- program constants
min_update_interval == 5      \* sensor_persistence.py:156
max_update_interval == 600    \* sensor_persistence.py:148
ThresholdDen == 100           \* 0.01 = 1/ThresholdDen, sensor_persistence.py:39

\* Python values that may be None are held in a sequence: <<>> is None and
\* <<v>> is the value v.  Unset marks an attribute the object does not have.
None == <<>>
Some(v) == <<v>>
Unset == <<"no", "attribute">>
NoError == "no exception"

Values == {0, 200, 201, 210, 250}     \* 0.0, 20.0, 20.1, 21.0, 25.0
Instants == {0, 3, 10, 611}           \* the instants at which time.time() is sampled

\* The firmware module outputs found in the module registry
\* (module_id, output_name, environment, variable).
ModuleOutputs ==
    { [module |-> "am2315_1", output |-> "air_temperature",
       environment |-> "environment_1", variable |-> "air_temperature"],
      [module |-> "dht22_1", output |-> "temperature",
       environment |-> "environment_1", variable |-> "air_temperature"],
      [module |-> "am2315_1", output |-> "air_humidity",
       environment |-> "environment_1", variable |-> "air_humidity"],
      [module |-> "am2315_1", output |-> "debug",
       environment |-> "environment_1", variable |-> "no_such_variable"] }

\* EnvVar.items.keys()
valid_vars == {"air_temperature", "air_humidity"}

\* One TopicPersistence object per output whose variable is valid; every one
\* is built with is_desired=False.
create_persistence_objects ==
    { [topic |-> <<"sensors", o.module, o.output, "filtered">>,
       environment |-> o.environment,
       variable |-> o.variable,
       is_desired |-> FALSE] : o \in {m \in ModuleOutputs : m.variable \in valid_vars} }

Objects == create_persistence_objects

\* ---------------------------------------------------------- controllers.py
\* The controller classes a deployment starts: one subclass of each variant.
Runtimes == {"OpenLoopController", "ClosedLoopController"}
Namespaces == {"/", "/environment_1/"}       \* rospy.get_namespace()
VariableParams == {None, Some("air_temperature")}  \* rospy.get_param("~variable", None)
SetPoints == {200, 210}                      \* item.data of a Float64 message
Commands == {None, Some(100)}                     \* what controller.update returns
Kinds == {"desired", "measured"}             \* channels a message comes in on

MsgVariable == "air_temperature"             \* the variable the bus carries
Topic(var, kind) == var \o "/" \o kind

\* Names bound at module level of controllers.py (lines 57-60, 62, 108, 136, 166)
ModuleGlobals == {"rospy", "sub", "getargspec", "Float64", "Controller",
                  "ClosedLoopController", "OpenLoopController", "to_snake_case"}
\* Methods carrying @classmethod (lines 66 and 142; line 114 has none)
ClassMethods == {"Controller.start", "OpenLoopController.start"}
\* A name a function body reads resolves in the enclosing function's locals
\* (a function from names to values) or in the module's globals.
Bound(name, locals) == name \in DOMAIN locals \cup ModuleGlobals

VARIABLES
    now,          \* time.time()
    last_points,  \* last_points[o]: the dict self.last_points of object o
    last_time,    \* last_time[o]: the attribute self.last_time of object o
    db,           \* the Document Store: set of [id, doc]
    db_writes,    \* number of db[...] = ... statements executed
    handled,      \* history: one record per on_data call, in order of handling:
                  \* the reading, whether the store takes a write during the
                  \* call (store_ok), the outcome, the store writes attempted
                  \* (writes), the documents stored (docs) and the key's
                  \* index entry before and after the call
    namespace,    \* the namespace the controller nodes run under
    variable_param, \* the private parameter ~variable
    proc,         \* proc[r]: the process of runtime r: pc, exception, line
    constructed,  \* runtimes whose controller instance cls(**param_values) exists
    publishers,   \* rospy.Publisher objects: [rt, name, topic]
    subscribers,  \* rospy.Subscriber objects: [rt, topic, callback]
    class_set_point, \* Controller.set_point, the class attribute (line 63)
    set_point,    \* set_point[r]: the instance attribute controller.set_point
    published,    \* history: every publish(), in order: [rt, topic, value]
    updates,      \* history: every controller.update(arg) call: [rt, arg, set_point]
    delivered     \* history: every message the bus brought to a runtime

recvars == <<now, last_points, last_time, db, db_writes, handled>>
ctlvars == <<namespace, variable_param, proc, constructed, publishers, subscribers,
             class_set_point, set_point, published, updates, delivered>>
vars == <<recvars, ctlvars>>

Abs(x) == IF x < 0 THEN -x ELSE x

\* dict.get(key): None when the key is absent
Get(d, k) == IF k \in DOMAIN d THEN Some(d[k]) ELSE None

\* d[k] = v
Put(d, k, v) == [x \in DOMAIN d \cup {k} |-> IF x = k THEN v ELSE d[x]]

\* abs(delta_val / last_value) <= 0.01 on floats; the division raises
\* ZeroDivisionError when last_value is 0.0.
should_update_point(last_value, value, delta_time, min_int, max_int) ==
    IF delta_time < min_int THEN "False"
    ELSE IF delta_time < max_int
         THEN IF last_value = 0 THEN "ZeroDivisionError"
              ELSE IF Abs(value - last_value) * ThresholdDen <= Abs(last_value)
                   THEN "False"
                   ELSE "True"
         ELSE "True"

\* "{}_{}_{}".format(environment, point_type, variable)
read_index_key(environment, variable, is_desired) ==
    environment \o "_" \o (IF is_desired THEN "desired" ELSE "measured")
                \o "_" \o variable

\* "{}-{}".format(curr_time, random.randint(0, sys.maxsize))
gen_doc_id(curr_time, nonce) == <<curr_time, "-", nonce>>

\* TopicPersistence.__init__: last_points = {}; no attribute last_time is set.
RecInit ==
    /\ now = 0
    /\ last_points = [o \in Objects |-> <<>>]
    /\ last_time = [o \in Objects |-> Unset]
    /\ db = {}
    /\ db_writes = 0
    /\ handled = <<>>

\* The outcome of one on_data call: what the handler leaves behind.
\*   outcome: "accepted" (reached line 95), "rejected" (returned at line 81)
\*            or the class of the exception that ended the handler.
Outcome(o, value, nonce, store_ok) ==
    LET curr_time == now
        key == read_index_key(o.environment, o.variable, o.is_desired)
        last_point == Get(last_points[o], key)
        same == [outcome |-> "", points |-> last_points[o], db |-> db,
                 writes |-> 0, written |-> <<>>]
    IN  IF last_time[o] = Unset
        THEN [same EXCEPT !.outcome = "AttributeError"]             \* line 76
        ELSE
        LET delta_time == curr_time - last_time[o][1]
            decision == IF last_point = None THEN "True"              \* line 77
                        ELSE should_update_point(last_point[1].value, value,
                                 delta_time, min_update_interval, max_update_interval)
            point == [environment |-> o.environment, variable |-> o.variable,
                      is_desired |-> o.is_desired, value |-> value,
                      timestamp |-> curr_time]
            point_id == gen_doc_id(curr_time, nonce)
        IN  IF decision = "ZeroDivisionError"
            THEN [same EXCEPT !.outcome = "ZeroDivisionError"]       \* line 39
            ELSE IF decision = "False"
            THEN [same EXCEPT !.outcome = "rejected"]                \* line 81
            ELSE IF ~store_ok
            THEN [same EXCEPT !.outcome = "StoreError", !.writes = 1] \* line 92
            ELSE [outcome |-> "accepted",
                  points |-> Put(last_points[o], key, point),        \* line 95
                  db |-> {d \in db : d.id # point_id}
                           \cup {[id |-> point_id, doc |-> point]},  \* line 92
                  writes |-> 1,
                  written |-> <<[id |-> point_id, doc |-> point]>>]

\* The bus delivers one reading on the topic of object o: self.on_data(item).
on_data(o, value, nonce, store_ok) ==
    /\ Len(handled) < MaxReadings
    /\ LET r == Outcome(o, value, nonce, store_ok)
           key == read_index_key(o.environment, o.variable, o.is_desired)
       IN  /\ last_points' = [last_points EXCEPT ![o] = r.points]
           /\ db' = r.db
           /\ db_writes' = db_writes + r.writes
           /\ handled' = Append(handled,
                  [obj |-> o, key |-> key, value |-> value, store_ok |-> store_ok,
                   time |-> now, outcome |-> r.outcome, writes |-> r.writes,
                   before |-> Get(last_points[o], key),
                   after |-> Get(r.points, key),
                   docs |-> r.written])
    /\ UNCHANGED <<now, last_time, ctlvars>>

\* time.time() moves on
Tick ==
    /\ \E t \in Instants : t > now /\ now' = t
    /\ UNCHANGED <<last_points, last_time, db, db_writes, handled, ctlvars>>

Deliver ==
    \E o \in Objects, value \in Values, nonce \in 0..MaxNonce, store_ok \in BOOLEAN :
        on_data(o, value, nonce, store_ok)

\* ---------------------------------------------------------- controllers.py

\* Controller.start (lines 66-106): the tuple it returns, or the exception.
ControllerStart ==
    IF namespace = "/"
    THEN [exc |-> "RuntimeError", line |-> 73, instance |-> FALSE, items |-> <<>>]
    ELSE IF variable_param = None
    THEN \* desired_sub_name is assigned only under line 100
         [exc |-> "UnboundLocalError", line |-> 106, instance |-> TRUE, items |-> <<>>]
    ELSE [exc |-> NoError, line |-> 106, instance |-> TRUE,
          items |-> <<"controller", Topic(variable_param[1], "commanded"),
                      Topic(variable_param[1], "measured"), Topic(variable_param[1], "desired")>>]

\* Mutant of SuperOf: the tuple of Controller.start with its default channel
\* names (lines 95-97), handed over without the namespace check of lines 71-76.
SuperOf_unguarded(cls) ==
    [type |-> "tuple", items |-> <<"controller", "cmd", "state", "desired">>]

\* super(cls) (lines 115, 144): with one argument, an unbound super object.
\* It is not a call of Controller.start, and it is not iterable.
SuperOf(cls) == [type |-> "super", items |-> <<>>]

Failed(exc, line, instance, pubs, subs) ==
    [pc |-> "failed", exc |-> exc, line |-> line, instance |-> instance,
     pubs |-> pubs, subs |-> subs]

\* The locals of a start method once the four names are unpacked.
StartLocals(r, items, others) ==
    [n \in {"cls", "controller", "cmd_topic", "measured_topic", "desired_topic"}
           \cup others |->
        CASE n = "cmd_topic" -> items[2]
          [] n = "measured_topic" -> items[3]
          [] n = "desired_topic" -> items[4]
          [] OTHER -> n]

OpenLoopLocals(r, items) ==
    StartLocals(r, items, {"cmd_pub", "measured_pub", "set_point_callback",
                           "set_point_sub"})

ClosedLoopLocals(r, items) ==
    StartLocals(r, items, {"cmd_pub", "state_callback", "set_point_callback",
                           "state_sub", "set_point_sub"})

\* OpenLoopController.start (lines 142-162)
OpenLoopStart(r) ==
    LET s == SuperOf(r) IN
    IF s.type # "tuple"
    THEN Failed("TypeError", 144, FALSE, {}, {})
    ELSE
    LET locals == OpenLoopLocals(r, s.items)
        cmd_pub == [rt |-> r, name |-> "cmd_pub", topic |-> locals["cmd_topic"]]
    IN  IF ~Bound("state_topic", locals)
        THEN Failed("NameError", 146, TRUE, {cmd_pub}, {})
        ELSE
        LET measured_pub == [rt |-> r, name |-> "measured_pub",
                             topic |-> locals["state_topic"]]
        IN  IF ~Bound("setpoint_topic", locals)
            THEN Failed("NameError", 159, TRUE, {cmd_pub, measured_pub}, {})
            ELSE [pc |-> "spinning", exc |-> NoError, line |-> 162, instance |-> TRUE,
                  pubs |-> {cmd_pub, measured_pub},
                  subs |-> {[rt |-> r, topic |-> locals["setpoint_topic"],
                             callback |-> "set_point_callback", locals |-> locals]}]

\* ClosedLoopController.start (lines 114-134)
ClosedLoopStart(r) ==
    IF "ClosedLoopController.start" \notin ClassMethods
    THEN Failed("TypeError", 114, FALSE, {}, {})
    ELSE
    LET s == SuperOf(r) IN
    IF s.type # "tuple"
    THEN Failed("TypeError", 115, FALSE, {}, {})
    ELSE
    LET locals == ClosedLoopLocals(r, s.items)
        cmd_pub == [rt |-> r, name |-> "cmd_pub", topic |-> locals["cmd_topic"]]
    IN  IF ~Bound("state_topic_name", locals)
        THEN Failed("NameError", 129, TRUE, {cmd_pub}, {})
        ELSE IF ~Bound("desired_topic_name", locals)
        THEN Failed("NameError", 131, TRUE, {cmd_pub},
                    {[rt |-> r, topic |-> locals["state_topic_name"],
                      callback |-> "state_callback", locals |-> locals]})
        ELSE [pc |-> "spinning", exc |-> NoError, line |-> 134, instance |-> TRUE,
              pubs |-> {cmd_pub},
              subs |-> {[rt |-> r, topic |-> locals["state_topic_name"],
                         callback |-> "state_callback", locals |-> locals],
                        [rt |-> r, topic |-> locals["desired_topic_name"],
                         callback |-> "set_point_callback", locals |-> locals]}]

\* controller.set_point: the instance attribute if one was assigned, else the
\* class attribute Controller.set_point
ReadSetPoint(r) == IF set_point[r] = Unset THEN class_set_point ELSE set_point[r]

PubTopic(r, name) == (CHOOSE p \in publishers : p.rt = r /\ p.name = name).topic

Quiet(r) == [exc |-> NoError, line |-> 0, updates |-> <<>>, pubs |-> <<>>,
             set_point |-> set_point[r]]

\* OpenLoopController.start.set_point_callback (lines 148-156);
\* cmd is what controller.update(item.data) returns.
OpenLoopSetPointCallback(r, locals, data, cmd) ==
    IF ~Bound("variable", locals)
    THEN [Quiet(r) EXCEPT !.exc = "NameError", !.line = 149]
    ELSE [Quiet(r) EXCEPT
            !.updates = <<[rt |-> r, arg |-> data, set_point |-> ReadSetPoint(r)]>>,
            !.pubs = IF cmd # None
                     THEN <<[rt |-> r, topic |-> PubTopic(r, "cmd_pub"), value |-> cmd[1]],
                            [rt |-> r, topic |-> PubTopic(r, "measured_pub"), value |-> cmd[1]]>>
                     ELSE <<>>]

\* ClosedLoopController.start.state_callback (lines 118-123)
ClosedLoopStateCallback(r, locals, data, cmd) ==
    IF ~Bound("variable", locals)
    THEN [Quiet(r) EXCEPT !.exc = "NameError", !.line = 119]
    ELSE [Quiet(r) EXCEPT
            !.updates = <<[rt |-> r, arg |-> data, set_point |-> ReadSetPoint(r)]>>,
            !.pubs = IF cmd # None
                     THEN <<[rt |-> r, topic |-> PubTopic(r, "cmd_pub"), value |-> cmd[1]]>>
                     ELSE <<>>]

\* ClosedLoopController.start.set_point_callback (lines 125-127)
ClosedLoopSetPointCallback(r, locals, data) ==
    IF ~Bound("variable", locals)
    THEN [Quiet(r) EXCEPT !.exc = "NameError", !.line = 126]
    ELSE [Quiet(r) EXCEPT !.set_point = Some(data)]

\* The callback rospy runs for a message on `topic` brought to runtime r.
Dispatch(r, topic, data, cmd) ==
    LET subs == {s \in subscribers : s.rt = r /\ s.topic = topic} IN
    IF subs = {} THEN [handler |-> "no subscriber", result |-> Quiet(r)]
    ELSE LET s == CHOOSE x \in subs : TRUE IN
         [handler |-> s.callback,
          result |->
            IF r = "OpenLoopController"
            THEN OpenLoopSetPointCallback(r, s.locals, data, cmd)
            ELSE IF s.callback = "state_callback"
            THEN ClosedLoopStateCallback(r, s.locals, data, cmd)
            ELSE ClosedLoopSetPointCallback(r, s.locals, data)]

\* The state before any process is started.  Controller.set_point = None is
\* the class attribute (line 63); no instance has an attribute of its own.
CtlIdle ==
    /\ proc = [r \in Runtimes |-> [pc |-> "init", exc |-> NoError, line |-> 0]]
    /\ constructed = {}
    /\ publishers = {}
    /\ subscribers = {}
    /\ class_set_point = None
    /\ set_point = [r \in Runtimes |-> Unset]
    /\ published = <<>>
    /\ updates = <<>>
    /\ delivered = <<>>

\* cls.start() of runtime r, from its first line to rospy.spin() or to the
\* exception that ends the process.
Start(r) ==
    /\ proc[r].pc = "init"
    /\ LET res == IF r = "OpenLoopController" THEN OpenLoopStart(r)
                  ELSE ClosedLoopStart(r)
       IN  /\ proc' = [proc EXCEPT ![r] = [pc |-> res.pc, exc |-> res.exc,
                                           line |-> res.line]]
           /\ constructed' = IF res.instance THEN constructed \cup {r} ELSE constructed
           /\ publishers' = publishers \cup res.pubs
           /\ subscribers' = subscribers \cup res.subs
    /\ UNCHANGED <<namespace, variable_param, class_set_point, set_point, published,
                   updates, delivered, recvars>>

\* The bus brings a message (kind: desired or measured) of variable MsgVariable
\* to runtime r, whose start() has run.  cmd is the value the controller's
\* update returns for this message when it is called.
BusDeliver(r, kind, data, cmd) ==
    /\ proc[r].pc # "init"
    /\ Len(delivered) < MaxMessages
    /\ LET topic == Topic(MsgVariable, kind)
           d == Dispatch(r, topic, data, cmd)
       IN  /\ set_point' = [set_point EXCEPT ![r] = d.result.set_point]
           /\ updates' = updates \o d.result.updates
           /\ published' = published \o d.result.pubs
           /\ delivered' = Append(delivered,
                  [rt |-> r, kind |-> kind, topic |-> topic, data |-> data,
                   cmd |-> cmd, handler |-> d.handler, exc |-> d.result.exc,
                   updates |-> d.result.updates, pubs |-> d.result.pubs,
                   set_point_before |-> ReadSetPoint(r),
                   set_point_after |-> IF d.result.set_point = Unset
                                       THEN class_set_point
                                       ELSE d.result.set_point])
    /\ UNCHANGED <<namespace, variable_param, proc, constructed, publishers,
                   subscribers, class_set_point, recvars>>

StartAny == \E r \in Runtimes : Start(r)

DeliverAny ==
    \E r \in Runtimes, kind \in Kinds, data \in SetPoints, cmd \in Commands :
        BusDeliver(r, kind, data, cmd)

\* ------------------------------------------------------------ specifications

\* The recorder node (sensor_persistence.py), no controller started.
Init ==
    /\ RecInit
    /\ CtlIdle
    /\ namespace = "/environment_1/"
    /\ variable_param = Some(MsgVariable)

Next == Deliver \/ Tick

Spec == Init /\ [][Next]_vars

\* The controller nodes (controllers.py) under every configuration.
CtlInit ==
    /\ RecInit
    /\ CtlIdle
    /\ namespace \in Namespaces
    /\ variable_param \in VariableParams

CtlNext == StartAny \/ DeliverAny

CtlSpec == CtlInit /\ [][CtlNext]_vars

\* ------------------------------------------------- claims on the recorder
\* The decision rules as the claims state them, read over the history of
\* handled readings (these definitions state the claims; they model no code).

\* A reading e is accepted against the baseline b (None: no reading yet).
RuleAccepts(b, e) ==
    \/ b = None
    \/ e.time - b[1].timestamp >= max_update_interval
    \/ /\ e.time - b[1].timestamp >= min_update_interval
       /\ b[1].value # 0
       /\ Abs(e.value - b[1].value) * 100 > Abs(b[1].value)

\* The last accepted reading of key k among the first n handled readings;
\* a reading whose store write fails leaves the baseline as it was (C14).
RECURSIVE Baseline(_, _)
Baseline(k, n) ==
    IF n = 0 THEN None
    ELSE LET e == handled[n]
             b == Baseline(k, n - 1)
         IN  IF e.key = k /\ RuleAccepts(b, e) /\ e.store_ok
             THEN Some([value |-> e.value, timestamp |-> e.time])
             ELSE b

\* The baseline reading i is decided against, and the time since it.
BaselineOf(i) == Baseline(handled[i].key, i - 1)
DeltaTime(i) == handled[i].time - BaselineOf(i)[1].timestamp

\* The index entry e holds the value and time of the baseline b.
EntryIs(e, b) ==
    IF b = None THEN e = None
    ELSE /\ e # None
         /\ e[1].value = b[1].value
         /\ e[1].timestamp = b[1].timestamp

\* The document on_data is to write for handled reading h.
PointOf(h) ==
    [environment |-> h.obj.environment, variable |-> h.obj.variable,
     is_desired |-> h.obj.is_desired, value |-> h.value, timestamp |-> h.time]

\* C1: a rejected reading causes no store write and leaves the key's index
\* entry as it was, so after every handled reading the key's entry is the
\* value and time of the last accepted reading.
C1_RejectedKeepsBaseline ==
    \A i \in 1..Len(handled) :
        LET h == handled[i] IN
        /\ (h.outcome = "rejected" \/ ~RuleAccepts(BaselineOf(i), h))
              => (h.writes = 0 /\ h.docs = <<>> /\ h.after = h.before)
        /\ EntryIs(h.after, Baseline(h.key, i))

\* C2: with min_update_interval <= delta_time < max_update_interval the
\* reading is accepted iff it differs from the last accepted value by more
\* than 1%, and is rejected otherwise.
C2_WindowAcceptsIffOverOnePercent ==
    \A i \in 1..Len(handled) :
        LET h == handled[i]
            b == BaselineOf(i)
        IN  (/\ b # None
             /\ b[1].value # 0
             /\ min_update_interval <= DeltaTime(i)
             /\ DeltaTime(i) < max_update_interval)
            => IF Abs(h.value - b[1].value) * 100 > Abs(b[1].value)
               THEN h.store_ok => h.outcome = "accepted"
               ELSE h.outcome = "rejected"

\* C3: with delta_time < min_update_interval the reading is rejected,
\* whatever its value.
C3_BelowMinRejected ==
    \A i \in 1..Len(handled) :
        (BaselineOf(i) # None /\ DeltaTime(i) < min_update_interval)
            => handled[i].outcome = "rejected"

\* C4: with delta_time >= max_update_interval the reading is accepted,
\* also when its value equals the last accepted one.
C4_HeartbeatAccepted ==
    \A i \in 1..Len(handled) :
        (/\ BaselineOf(i) # None
         /\ DeltaTime(i) >= max_update_interval
         /\ handled[i].store_ok)
            => handled[i].outcome = "accepted"

\* C5: the first reading handled for a key (no index entry yet) is accepted
\* and persisted, for every value and every arrival time.
C5_FirstReadingPersisted ==
    \A i \in 1..Len(handled) :
        LET h == handled[i] IN
        (h.before = None /\ h.store_ok)
            => /\ h.outcome = "accepted"
               /\ Len(h.docs) = 1
               /\ h.docs[1].doc = PointOf(h)

\* C6: each accepted reading produces exactly one store write, of the point
\* with the recorder's environment, variable and is_desired, the reading's
\* value and the handling time, under the id "<timestamp>-<nonce>", and then
\* the key's index entry is that point.
C6_AcceptWritesOnePoint ==
    \A i \in 1..Len(handled) :
        LET h == handled[i] IN
        (h.outcome = "accepted" \/ (RuleAccepts(BaselineOf(i), h) /\ h.store_ok))
            => /\ h.writes = 1
               /\ \E n \in 0..MaxNonce :
                     h.docs = <<[id |-> <<h.time, "-", n>>, doc |-> PointOf(h)]>>
               /\ h.after = Some(PointOf(h))

\* --------------------------------------------- claims on the controllers
\* The deployment the claims are about: an environment namespace and the
\* variable whose channels the bus carries.
Configured == namespace # "/" /\ variable_param = Some(MsgVariable)

\* The value of the most recent set-point message brought to runtime r among
\* the first n delivered messages; None when there was none.
RECURSIVE LastSetPointMessage(_, _)
LastSetPointMessage(r, n) ==
    IF n = 0 THEN None
    ELSE IF delivered[n].rt = r /\ delivered[n].kind = "desired"
         THEN Some(delivered[n].data)
         ELSE LastSetPointMessage(r, n - 1)

\* C7: an OpenLoopController publishes a non-null update result exactly
\* twice, on <variable>/commanded and on <variable>/measured, and publishes
\* nothing for a null result.
C7_OpenLoopTwoPublishes ==
    \A i \in 1..Len(delivered) :
        LET m == delivered[i] IN
        (Configured /\ m.rt = "OpenLoopController" /\ m.kind = "desired")
            => IF m.cmd = None THEN m.pubs = <<>>
               ELSE /\ Len(m.pubs) = 2
                    /\ {p.topic : p \in {m.pubs[1], m.pubs[2]}}
                          = {Topic(MsgVariable, "commanded"),
                             Topic(MsgVariable, "measured")}
                    /\ m.pubs[1].value = m.cmd[1]
                    /\ m.pubs[2].value = m.cmd[1]

\* C8: a ClosedLoopController publishes a non-null update result exactly
\* once, on the commanded channel only; nothing for a null result; and a
\* set-point message neither invokes update nor publishes.
C8_ClosedLoopOnePublish ==
    \A i \in 1..Len(delivered) :
        LET m == delivered[i] IN
        (Configured /\ m.rt = "ClosedLoopController")
            => IF m.kind = "desired" THEN m.updates = <<>> /\ m.pubs = <<>>
               ELSE IF m.cmd = None THEN m.pubs = <<>>
               ELSE m.pubs = <<[rt |-> m.rt, topic |-> Topic(MsgVariable, "commanded"),
                                value |-> m.cmd[1]]>>

\* C9: an OpenLoopController's update is invoked exactly once per set-point
\* message, with the message's value, and never for a message on the
\* measured channel.
C9_OpenLoopUpdatePerSetPoint ==
    \A i \in 1..Len(delivered) :
        LET m == delivered[i] IN
        (Configured /\ m.rt = "OpenLoopController")
            => IF m.kind = "desired"
               THEN Len(m.updates) = 1 /\ m.updates[1].arg = m.data
               ELSE m.updates = <<>>

\* C10: a ClosedLoopController's update is invoked exactly once per
\* measurement message, with set_point the value of the most recently
\* handled set-point message (None if none); a set-point message changes
\* set_point and nothing else.
C10_ClosedLoopUpdatePerMeasurement ==
    \A i \in 1..Len(delivered) :
        LET m == delivered[i] IN
        (Configured /\ m.rt = "ClosedLoopController")
            => IF m.kind = "measured"
               THEN /\ Len(m.updates) = 1
                    /\ m.updates[1].arg = m.data
                    /\ m.updates[1].set_point = LastSetPointMessage(m.rt, i - 1)
                    /\ m.set_point_after = m.set_point_before
               ELSE /\ m.set_point_after = Some(m.data)
                    /\ m.updates = <<>>
                    /\ m.pubs = <<>>

\* C11: under the global namespace "/" a runtime's start fails with a fatal
\* error before a controller instance is constructed, a channel subscribed or
\* a publisher created, and the runtime never handles or publishes a message.
C11_GlobalNamespaceFailsFast ==
    namespace = "/" =>
        \A r \in Runtimes :
            /\ proc[r].pc \in {"init", "failed"}
            /\ proc[r].pc = "failed" => proc[r].exc # NoError
            /\ r \notin constructed
            /\ \A p \in publishers : p.rt # r
            /\ \A sb \in subscribers : sb.rt # r
            /\ \A i \in 1..Len(published) : published[i].rt # r
            /\ \A i \in 1..Len(updates) : updates[i].rt # r
            /\ \A i \in 1..Len(delivered) :
                  delivered[i].rt = r
                      => /\ delivered[i].handler = "no subscriber"
                         /\ delivered[i].pubs = <<>>
                         /\ delivered[i].updates = <<>>

\* Witness of C11: under "/", a runtime has failed at start and the bus has
\* since brought it a message.
C11_Witness ==
    /\ namespace = "/"
    /\ \E r \in Runtimes :
          /\ proc[r].pc = "failed"
          /\ \E i \in 1..Len(delivered) : delivered[i].rt = r /\ delivered[i].cmd # None

\* ------------------------------------------ further claims on the recorder
\* The handled readings of key k, in order of handling.
KeyHistory(k) == SelectSeq(handled, LAMBDA h : h.key = k)

Keys == {read_index_key(o.environment, o.variable, o.is_desired) : o \in Objects}

\* The scenario of C12: the readings of one key (time, value in tenths) and
\* their outcomes; the first reading is the baseline.
Scenario ==
    <<[time |-> 0, value |-> 200, outcome |-> "accepted"],
      [time |-> 3, value |-> 250, outcome |-> "rejected"],
      [time |-> 10, value |-> 201, outcome |-> "rejected"],
      [time |-> 10, value |-> 210, outcome |-> "accepted"],
      [time |-> 611, value |-> 210, outcome |-> "accepted"]>>

\* The first n readings of history hs are the first n of the scenario, with
\* the store taking every write.
FollowsScenario(hs, n) ==
    /\ n <= Len(hs)
    /\ n <= Len(Scenario)
    /\ \A i \in 1..n : /\ hs[i].time = Scenario[i].time
                       /\ hs[i].value = Scenario[i].value
                       /\ hs[i].store_ok

\* C12: baseline 20.0 at t=0; then t=3 25.0 rejected, t=10 20.1 rejected,
\* t=10 21.0 accepted with the baseline becoming (21.0, t=10), t=611 21.0
\* accepted.
C12_Scenario ==
    \A k \in Keys :
        LET hs == KeyHistory(k) IN
        \A n \in 2..Len(hs) :
            FollowsScenario(hs, n)
                => /\ hs[n].outcome = Scenario[n].outcome
                   /\ n = 4 => /\ hs[n].after # None
                               /\ hs[n].after[1].value = 210
                               /\ hs[n].after[1].timestamp = 10

\* The number of index entries held for key k, over all recorder objects.
Entries(k) == Cardinality({o \in Objects : k \in DOMAIN last_points[o]})

\* C13: across all recorder objects there is exactly one index entry for each
\* key that has been observed (with the store taking the write) and none for
\* a key that has not; never two for one key.
C13_OneEntryPerObservedKey ==
    \A k \in Keys :
        /\ Entries(k) <= 1
        /\ (\E i \in 1..Len(handled) : handled[i].key = k /\ handled[i].store_ok)
              => Entries(k) = 1
        /\ (\A i \in 1..Len(handled) : handled[i].key # k) => Entries(k) = 0

\* C14: when the store write of an accepted reading fails, the failure leaves
\* the handler (it is not caught), exactly one write was attempted, and the
\* key's index entry is as before.
C14_StoreFailurePropagates ==
    \A i \in 1..Len(handled) :
        LET h == handled[i] IN
        (RuleAccepts(BaselineOf(i), h) /\ ~h.store_ok)
            => /\ h.outcome = "StoreError"
               /\ h.writes = 1
               /\ h.docs = <<>>
               /\ h.after = h.before

\* C15: on a baseline of exactly zero a reading with min_update_interval <=
\* delta_time < max_update_interval ends in a division by zero, with no store
\* write and no index mutation; below the minimum it is rejected and from the
\* maximum on it is accepted, without error.
C15_ZeroBaseline ==
    \A i \in 1..Len(handled) :
        LET h == handled[i]
            b == BaselineOf(i)
        IN  (b # None /\ b[1].value = 0)
            => IF DeltaTime(i) < min_update_interval
               THEN h.outcome = "rejected"
               ELSE IF DeltaTime(i) < max_update_interval
               THEN /\ h.outcome = "ZeroDivisionError"
                    /\ h.writes = 0
                    /\ h.after = h.before
               ELSE h.store_ok => h.outcome = "accepted"

\* C16: two documents persisted one after the other for the same key have
\* timestamps at least min_update_interval apart.
C16_MinGapBetweenWrites ==
    \A i, j \in 1..Len(handled) :
        (/\ i < j
         /\ handled[i].key = handled[j].key
         /\ handled[i].docs # <<>>
         /\ handled[j].docs # <<>>)
            => handled[j].time - handled[i].time >= min_update_interval

\* The case of C16: two documents persisted for one key.
C16_Case ==
    \E i, j \in 1..Len(handled) :
        /\ i < j
        /\ handled[i].key = handled[j].key
        /\ handled[i].docs # <<>>
        /\ handled[j].docs # <<>>

\* C17: on a key whose readings all carry one value, of two readings that
\* arrive max_update_interval or more apart the later one, or one between
\* them, is persisted: a write at least once per max_update_interval.
C17_HeartbeatAtLeastOncePerMax ==
    \A i, j \in 1..Len(handled) :
        LET k == handled[i].key
            hs == KeyHistory(k)
        IN  (/\ i < j
             /\ handled[j].key = k
             /\ \A m \in 1..Len(hs) : hs[m].value = hs[1].value /\ hs[m].store_ok
             /\ handled[j].time - handled[i].time >= max_update_interval)
            => \E m \in (i + 1)..j : handled[m].key = k /\ handled[m].docs # <<>>

\* C18: handling a reading of one key leaves the index entry of every other
\* key as it was.
C18_OtherKeysUntouched ==
    [][\A o \in Objects :
          (/\ Len(handled') = Len(handled) + 1
           /\ handled'[Len(handled')].key
                 # read_index_key(o.environment, o.variable, o.is_desired))
              => last_points'[o] = last_points[o]]_vars

\* The case of C18: a reading is handled while another key has an entry.
C18_Case ==
    \E i \in 1..Len(handled) : \E o \in Objects :
        /\ read_index_key(o.environment, o.variable, o.is_desired) # handled[i].key
        /\ last_points[o] # <<>>

\* The document persisted last for key k, None when there is none.
LastDoc(k) ==
    LET idx == {i \in 1..Len(handled) : handled[i].key = k /\ handled[i].docs # <<>>}
    IN  IF idx = {} THEN None
        ELSE LET m == CHOOSE i \in idx : \A j \in idx : j <= i
             IN  Some(handled[m].docs[1].doc)

\* C20: while no store write has failed, a key has an index entry iff a
\* document was persisted for it, and the entry is the key's latest document.
C20_IndexMirrorsStore ==
    (\A i \in 1..Len(handled) : handled[i].outcome # "StoreError")
        => \A o \in Objects :
              LET k == read_index_key(o.environment, o.variable, o.is_desired)
              IN  Get(last_points[o], k) = LastDoc(k)

\* The case of C20: a key has an index entry.
C20_Case == \E o \in Objects : last_points[o] # <<>>

\* ---------------------------------------- further claims on the controllers
\* C19: a set-point message handled for one controller instance changes the
\* set_point of no other instance and leaves the class attribute as it was.
C19_SetPointPerInstance ==
    [][\A r \in Runtimes :
          (/\ Len(delivered') = Len(delivered) + 1
           /\ delivered'[Len(delivered')].kind = "desired"
           /\ delivered'[Len(delivered')].rt # r)
              => /\ set_point'[r] = set_point[r]
                 /\ class_set_point' = class_set_point]_vars

\* The case of C19: a controller's set_point_callback has handled a message.
C19_Case ==
    \E i \in 1..Len(delivered) :
        /\ delivered[i].rt = "ClosedLoopController"
        /\ delivered[i].handler = "set_point_callback"

=============================================================================
